---------------------------- MODULE Spec2Model ----------------------------
(***************************************************************************)
(* A model of the SPARKLE512-based pseudo-random generator of levain:      *)
(* the C++ class Sparkle512core (sparkle512.hpp / sparkle512.cpp) and its  *)
(* Cython wrapper SparkleRG (wrapper.pyx, also in cpputils.pyx), and the   *)
(* Python class EschRG built on it (sparklyRG.org).                        *)
(*                                                                         *)
(* A 32-bit word (uint32_t) is a pair << hi, lo >> of 16-bit halves, a     *)
(* 64-bit value (uint64_t) is the set of the positions of its set bits.    *)
(***************************************************************************)
EXTENDS Integers, Sequences, FiniteSets, TLC

(***************************************************************************)
(* Bounds of the model.                                                    *)
(***************************************************************************)
\* The number of calls made on a generator after its construction.
MaxCalls == 2

(***************************************************************************)
(* C++ passes arguments by value: an argument is evaluated once, before    *)
(* the body of the function that takes it.  Force1 and Force2 apply F to   *)
(* the values of one and of two arguments.                                 *)
(***************************************************************************)
Force1(F(_), a) == CHOOSE r \in {F(t) : t \in {a}} : TRUE

Force2(F(_, _), a, b) == CHOOSE r \in {F(s, t) : s \in {a}, t \in {b}} : TRUE

(***************************************************************************)
(* 32-bit words.                                                           *)
(***************************************************************************)
Half == 65536

W(hi, lo) == << hi, lo >>

ZeroWord == W(0, 0)

\* The exclusive or of bit p (a power of two) of a and b, in place.
XorBit(a, b, p) == (((a \div p) + (b \div p)) % 2) * p

Xor4(a, b, p) ==
  XorBit(a, b, p) + XorBit(a, b, 2 * p) + XorBit(a, b, 4 * p) + XorBit(a, b, 8 * p)

\* a ^ b on 16-bit values.
Xor16(a, b) == Xor4(a, b, 1) + Xor4(a, b, 16) + Xor4(a, b, 256) + Xor4(a, b, 4096)

\* a ^ b on uint32_t.
XOR(a, b) == Force2(LAMBDA s, t : << Xor16(s[1], t[1]), Xor16(s[2], t[2]) >>, a, b)

\* a + b on uint32_t: modulo 2^32.
Add(a, b) ==
  Force2(LAMBDA s, t : << (s[1] + t[1] + ((s[2] + t[2]) \div Half)) % Half,
                          (s[2] + t[2]) % Half >>, a, b)

\* x >> n on uint32_t, 0 <= n <= 31.
Shr(x, n) ==
  Force1(LAMBDA t :
           IF n >= 16 THEN << 0, t[1] \div (2 ^ (n - 16)) >>
           ELSE << t[1] \div (2 ^ n), (t[2] \div (2 ^ n)) + (t[1] % (2 ^ n)) * (2 ^ (16 - n)) >>,
         x)

\* x << n on uint32_t, 1 <= n <= 31: the bits shifted out of the word are lost.
Shl(x, n) ==
  Force1(LAMBDA t :
           IF n >= 16 THEN << (t[2] % (2 ^ (32 - n))) * (2 ^ (n - 16)), 0 >>
           ELSE << (t[1] % (2 ^ (16 - n))) * (2 ^ n) + (t[2] \div (2 ^ (16 - n))),
                   (t[2] % (2 ^ (16 - n))) * (2 ^ n) >>,
         x)

\* a | b for two words with no set bit in common.
OrDisjoint(a, b) == Force2(LAMBDA s, t : << s[1] + t[1], s[2] + t[2] >>, a, b)

\* #define ROT(x, n) (((x) >> (n)) | ((x) << (32-(n))))
ROT(x, n) == Force1(LAMBDA t : OrDisjoint(Shr(t, n), Shl(t, 32 - n)), x)

\* #define ELL(x) (ROT(((x) ^ ((x) << 16)), 16))
ELL(x) == Force1(LAMBDA t : ROT(XOR(t, Shl(t, 16)), 16), x)

N_BRANCHES == 8

\* 0xB7E15162, 0xBF715880, 0x38B4DA56, 0x324E7738,
\* 0xBB1185EB, 0x4F7C7B57, 0xCFBFA1C8, 0xC2B3293D
RCON ==
  << W(47073, 20834), W(49009, 22656), W(14516, 55894), W(12878, 30520),
     W(47889, 34283), W(20348, 31575), W(53183, 41416), W(49843, 10557) >>

\* RCON[k] with the index of the C array (from 0).
RconAt(k) == RCON[k + 1]

\* The number of set bits of a 16-bit value, modulo 2.
Parity16(x) ==
  ( x + (x \div 2) + (x \div 4) + (x \div 8) + (x \div 16) + (x \div 32) + (x \div 64)
    + (x \div 128) + (x \div 256) + (x \div 512) + (x \div 1024) + (x \div 2048)
    + (x \div 4096) + (x \div 8192) + (x \div 16384) + (x \div 32768) ) % 2

\* __builtin_parityll(w) of a word widened to 64 bits.
Parity(w) == Force1(LAMBDA t : (Parity16(t[1]) + Parity16(t[2])) % 2, w)

(***************************************************************************)
(* The permutation: Sparkle512core::_permute.  The state is the array      *)
(* state[0..15].                                                           *)
(***************************************************************************)
StateIndex == 0 .. (2 * N_BRANCHES - 1)

\* x ^= rc after y ^= ROT(x, b): the end of each group of three statements.
ArxXor(x, y, b, rc) == Force1(LAMBDA t : << XOR(t, rc), XOR(y, ROT(t, b)) >>, x)

\* x += ROT(y, a); y ^= ROT(x, b); x ^= rc
ArxRot(p, a, b, rc) == Force1(LAMBDA t : ArxXor(Add(t[1], ROT(t[2], a)), t[2], b, rc), p)

\* A variant of ArxPlain that rotates y before it is added, as the other three groups
\* of the box do: RoundsOfPermute depends on the plain x += y.
ArxPlainRotated(p, b, rc) == ArxRot(p, 31, b, rc)

\* x += y; y ^= ROT(x, b); x ^= rc
ArxPlain(p, b, rc) == Force1(LAMBDA t : ArxXor(Add(t[1], t[2]), t[2], b, rc), p)

\* The twelve statements of the ARXBOX on the pair (x, y) = (state[j], state[j+1]).
ARXBOX(x, y, rc) ==
  ArxRot(ArxPlain(ArxRot(ArxRot(<< x, y >>, 31, 24, rc), 17, 17, rc), 31, rc), 24, 16, rc)

StorePair(s, j, p) == Force1(LAMBDA t : [s EXCEPT ![j] = t[1], ![j + 1] = t[2]], p)

\* One turn of the loop on j: rc = RCON[j>>1], then the box on state[j], state[j+1].
ArxAt(s, j) ==
  Force1(LAMBDA t : StorePair(t, j, ARXBOX(t[j], t[j + 1], RconAt(j \div 2))), s)

\* for(j = 0; j < 2*N_BRANCHES; j += 2)
ArxLayer(s) ==
  ArxAt(ArxAt(ArxAt(ArxAt(ArxAt(ArxAt(ArxAt(ArxAt(s, 0), 2), 4), 6), 8), 10), 12), 14)

\* state[1] ^= RCON[i % N_BRANCHES]; state[3] ^= i;
AddRoundConstant(s, i) ==
  [s EXCEPT ![1] = XOR(@, RconAt(i % N_BRANCHES)), ![3] = XOR(@, W(i \div Half, i % Half))]

\* tmpx = state[0] ^ state[2] ^ state[4] ^ state[6], then tmpx = ELL(tmpx)
TmpX(s) == Force1(LAMBDA t : ELL(XOR(XOR(XOR(t[0], t[2]), t[4]), t[6])), s)

\* tmpy = state[1] ^ state[3] ^ state[5] ^ state[7], then tmpy = ELL(tmpy)
TmpY(s) == Force1(LAMBDA t : ELL(XOR(XOR(XOR(t[1], t[3]), t[5]), t[7])), s)

\* The four statements of the second loop of the linear layer, in their order.
LinearA(s, j, tmpy) ==
  Force1(LAMBDA t : [t EXCEPT ![j - 2] = XOR(XOR(t[j + N_BRANCHES], t[j]), tmpy)], s)

LinearB(s, j) == Force1(LAMBDA t : [t EXCEPT ![j + N_BRANCHES] = t[j]], s)

LinearC(s, j, tmpx) ==
  Force1(LAMBDA t : [t EXCEPT ![j - 1] = XOR(XOR(t[j + N_BRANCHES + 1], t[j + 1]), tmpx)], s)

LinearD(s, j) == Force1(LAMBDA t : [t EXCEPT ![j + N_BRANCHES + 1] = t[j + 1]], s)

LinearAt(s, j, tmpx, tmpy) == LinearD(LinearC(LinearB(LinearA(s, j, tmpy), j), j, tmpx), j)

\* A variant of LinearLast that stores x0 and y0 in state[N_BRANCHES] and
\* state[N_BRANCHES+1] before it reads them: LinearOfPermute depends on the order of
\* the four statements.
LinearLastOverwritten(s, x0, y0, tmpx, tmpy) ==
  Force1(LAMBDA t : [t EXCEPT ![N_BRANCHES - 2] = XOR(XOR(x0, x0), tmpy),
                              ![N_BRANCHES] = x0,
                              ![N_BRANCHES - 1] = XOR(XOR(y0, y0), tmpx),
                              ![N_BRANCHES + 1] = y0], s)

\* The four statements after the loop: x0 and y0 are the state[0] and state[1]
\* saved before the loop.
LinearLast(s, x0, y0, tmpx, tmpy) ==
  Force1(LAMBDA t : [t EXCEPT ![N_BRANCHES - 2] = XOR(XOR(t[N_BRANCHES], x0), tmpy),
                              ![N_BRANCHES] = x0,
                              ![N_BRANCHES - 1] = XOR(XOR(t[N_BRANCHES + 1], y0), tmpx),
                              ![N_BRANCHES + 1] = y0], s)

LinearWith(s, tmpx, tmpy) ==
  LinearLast(LinearAt(LinearAt(LinearAt(s, 2, tmpx, tmpy), 4, tmpx, tmpy), 6, tmpx, tmpy),
             s[0], s[1], tmpx, tmpy)

LinearLayer(s) ==
  Force1(LAMBDA t : Force2(LAMBDA tmpx, tmpy : LinearWith(t, tmpx, tmpy), TmpX(t), TmpY(t)), s)

\* One turn of the loop on i of _permute.
Round(s, i) == LinearLayer(ArxLayer(AddRoundConstant(s, i)))

\* for(i = 0; i < steps; i ++): the rounds from round i on.  t is the state after
\* round i.
RECURSIVE PermuteFrom(_, _, _)
PermuteFrom(s, i, steps) ==
  IF i >= steps THEN s
  ELSE CHOOSE r \in {PermuteFrom(t, i + 1, steps) : t \in {Round(s, i)}} : TRUE

(***************************************************************************)
(* Values a read outside an object may give.  Such a read is undefined: g  *)
(* selects what it gives during one call.                                  *)
(***************************************************************************)
Indeterminate == {0, 1}

IndeterminateWord(g) == W(0, g)

(***************************************************************************)
(* Sparkle512core: its fields and its methods, as functions of the object. *)
(***************************************************************************)
\* Sparkle512core::Sparkle512core()
Sparkle512core ==
  [steps |-> 0,
   state |-> [k \in StateIndex |-> ZeroWord],
   entropy_tank |-> << >>,
   entropy_cursor |-> 0]

\* A variant of setup that fills the tank with true: StartupZeroUntilRefill depends
\* on the units setup stores.
setupFilled(c, steps, output_rate) ==
  [c EXCEPT !.steps = steps, !.entropy_tank = [t \in 1 .. output_rate |-> 1]]

\* steps = _steps; entropy_tank.assign(_output_rate, false);
setup(c, steps, output_rate) ==
  [c EXCEPT !.steps = steps, !.entropy_tank = [t \in 1 .. output_rate |-> 0]]

\* _permute() on the state of the core
permute(c) == Force1(LAMBDA t : [t EXCEPT !.state = PermuteFrom(t.state, 0, t.steps)], c)

\* state[k], as _squeeze reads it: the array has 16 words, and a tank of more than
\* 512 units makes _squeeze read past it.
StateAt(s, k, g) == IF k \in StateIndex THEN s[k] ELSE IndeterminateWord(g)

\* A variant of SqueezedUnit that stores bit j of the word and not the parity of
\* the bits from j on: SqueezeInvertible depends on the parity.
SqueezedUnitBit(s, u, g) == Parity(Shr(Shl(StateAt(s, u \div 32, g), 31 - (u % 32)), 31))

\* The unit _squeeze stores at index u of the tank (from 0): i = 32 * (u / 32),
\* j = u % 32, entropy_tank[i+j] = __builtin_parityll(state[i / 32] >> j).
SqueezedUnit(s, u, g) == Parity(Shr(StateAt(s, u \div 32, g), u % 32))

\* _squeeze: i runs over the multiples of 32 below the size of the tank, so every
\* unit of the tank is stored; the cursor is reset.
squeeze(c, g) ==
  Force1(LAMBDA t : [t EXCEPT !.entropy_tank = [u \in 1 .. Len(t.entropy_tank) |->
                                                   SqueezedUnit(t.state, u - 1, g)],
                              !.entropy_cursor = 0], c)

\* ((uint32_t)byte) << (8*j)
ByteShl(byte, j) ==
  CASE j = 0 -> W(0, byte)
    [] j = 1 -> W(0, byte * 256)
    [] j = 2 -> W(byte, 0)
    [] j = 3 -> W(byte * 256, 0)

\* byte_array[i]: the wrapper passes 64 bytes, so every i + j is an index of it.
ByteAt(byte_array, i) == byte_array[i + 1]

\* for(j=0; j<4; j++) state[i >> 2] ^= ((uint32_t)byte_array[i + j]) << (8*j);
XorChunk(w, byte_array, i) ==
  XOR(XOR(XOR(XOR(w, ByteShl(ByteAt(byte_array, i), 0)),
                  ByteShl(ByteAt(byte_array, i + 1), 1)),
              ByteShl(ByteAt(byte_array, i + 2), 2)),
      ByteShl(ByteAt(byte_array, i + 3), 3))

\* for(i=0; i<byte_array.size(); i+=4): word k = i >> 2 takes the chunk at i = 4k.
XorBytes(s, byte_array) ==
  Force2(LAMBDA t, b : [k \in StateIndex |->
                          IF 4 * k < Len(b) THEN XorChunk(t[k], b, 4 * k) ELSE t[k]],
         s, byte_array)

\* state[2*N_BRANCHES-1] ^= v
XorDomain(s, v) == [s EXCEPT ![2 * N_BRANCHES - 1] = XOR(@, W(0, v))]

AbsorbInject(c, byte_array) ==
  Force1(LAMBDA t : [t EXCEPT !.state = XorBytes(XorDomain(t.state, 1), byte_array)], c)

\* A variant of AbsorbSeparate that XORs the constant 1 a second time: AbsorbSteps
\* depends on the constant.
AbsorbSeparateAsInject(c) == Force1(LAMBDA t : [t EXCEPT !.state = XorDomain(t.state, 1)], c)

\* state[2*N_BRANCHES-1] ^= 2, between the two _permute() of absorb
AbsorbSeparate(c) == Force1(LAMBDA t : [t EXCEPT !.state = XorDomain(t.state, 2)], c)

\* Sparkle512core::absorb
absorb(c, byte_array, g) ==
  squeeze(permute(AbsorbSeparate(permute(AbsorbInject(c, byte_array)))), g)

(***************************************************************************)
(* uint64_t values: the set of the positions of the set bits.              *)
(***************************************************************************)
BitIndex == 0 .. 63

\* The uint64_t of a natural number below 2^31.
U64(v) == {i \in 0 .. 30 : (v \div (2 ^ i)) % 2 = 1}

\* a < b on uint64_t: they differ, and b has the highest bit on which they differ.
Less(a, b) == Force2(LAMBDA s, t : \E i \in t \ s : \A j \in s \ t : j < i, a, b)

\* The carry into bit i of a + b.
CarryInto(a, b, i) ==
  \E j \in a \cap b : j < i /\ \A k \in (j + 1) .. (i - 1) : k \in a \cup b

\* a + b on uint64_t: modulo 2^64.
Add64(a, b) ==
  Force2(LAMBDA s, t : {i \in BitIndex : ((i \in s) # (i \in t)) # CarryInto(s, t, i)}, a, b)

\* The borrow into bit i of a - b.
BorrowInto(a, b, i) ==
  \E j \in b \ a : j < i /\ \A k \in (j + 1) .. (i - 1) : k \notin a \ b

\* a - b on uint64_t: modulo 2^64.
Sub64(a, b) ==
  Force2(LAMBDA s, t : {i \in BitIndex : ((i \in s) # (i \in t)) # BorrowInto(s, t, i)}, a, b)

\* What a shift of the int 1 by 32 or more gives: the shift is undefined.  The count
\* is taken modulo 32 ("wrap"), or every bit is shifted out ("zero").
ShiftOutcomes == {"wrap", "zero"}

\* The uint64_t that the int (1 << k) becomes, k < 32: 1 << 31 is the negative int,
\* and its conversion to uint64_t extends the sign.
ShiftInt(k) == IF k < 31 THEN {k} ELSE 31 .. 63

\* A variant of ShiftOne that counts the shift down from bit 31: BitOrderLowFirst
\* depends on the shift count being the turn i of the loop.
ShiftOneDown(i, ub) ==
  IF i < 32 THEN ShiftInt(31 - i)
  ELSE IF ub = "wrap" THEN ShiftInt(31 - (i % 32)) ELSE {}

\* ShiftOne is the uint64_t that (1 << i) becomes in result |= (1 << i).
ShiftOne(i, ub) ==
  IF i < 32 THEN ShiftInt(i)
  ELSE IF ub = "wrap" THEN ShiftInt(i % 32) ELSE {}

\* A variant of Clzll that counts the highest set bit too: BitLengthAboveRange
\* depends on the count.
ClzllWithTop(x) == Force1(LAMBDA t : Cardinality({i \in BitIndex : \A j \in t : j <= i}), x)

\* __builtin_clzll(x) for x # 0: the number of zero bits above the highest set bit.
Clzll(x) == Force1(LAMBDA t : Cardinality({i \in BitIndex : \A j \in t : j < i}), x)

\* __builtin_clzll(0) is undefined: what the count can be.
ClzllOfZero == {63, 64}

\* The counts __builtin_clzll(x) can give.
ClzllOutcomes(x) == Force1(LAMBDA t : IF t = {} THEN ClzllOfZero ELSE {Clzll(t)}, x)

(***************************************************************************)
(* Sparkle512core::get_n_bit_unsigned_integer.                             *)
(***************************************************************************)
Min(a, b) == IF a < b THEN a ELSE b

\* The units the loop takes at i, i + 1, ..., i + k - 1 with no refill in between:
\* the bits they set in result.
RunBits(c, i, k, ub) ==
  UNION {ShiftOne(i + d, ub) : d \in {e \in 0 .. (k - 1) : c.entropy_tank[c.entropy_cursor + e + 1] = 1}}

\* The same units, in the order the loop takes them.
RunUnits(c, k) == [d \in 1 .. k |-> c.entropy_tank[c.entropy_cursor + d]]

\* A variant of refill that permutes twice: RefillWhenExhausted depends on the
\* number of permutations of a refill.
refillTwice(c, g) == squeeze(permute(permute(c)), g)

\* if (entropy_cursor == entropy_tank.size()) { _permute(); _squeeze(); }
refill(c, g) == squeeze(permute(c), g)

\* The loop from its turn i on.  acc is the result, the units taken and whether a
\* refill happened so far.  The k turns up to the next refill, or to n, are taken
\* together.
RECURSIVE GetBitsFrom(_, _, _, _, _, _)
GetBitsTake(c, acc, i, n, ub, g, k) ==
  GetBitsFrom([c EXCEPT !.entropy_cursor = @ + k],
              [result |-> acc.result \cup RunBits(c, i, k, ub),
               units |-> acc.units \o RunUnits(c, k),
               refilled |-> acc.refilled],
              i + k, n, ub, g)

\* A variant of GetBitsTurn that refills when one unit is left in the tank:
\* UnseededStart depends on the refill being made at the capacity and not before.
GetBitsTurnEarly(c, acc, i, n, ub, g) ==
  IF i >= n THEN [core |-> c, result |-> acc.result, units |-> acc.units, refilled |-> acc.refilled]
  ELSE IF c.entropy_cursor + 1 >= Len(c.entropy_tank)
       THEN GetBitsFrom(refill(c, g), [acc EXCEPT !.refilled = TRUE], i, n, ub, g)
       ELSE GetBitsTake(c, acc, i, n, ub, g, Min(n - i, Len(c.entropy_tank) - c.entropy_cursor - 1))

GetBitsTurn(c, acc, i, n, ub, g) ==
  IF i >= n THEN [core |-> c, result |-> acc.result, units |-> acc.units, refilled |-> acc.refilled]
  ELSE IF c.entropy_cursor = Len(c.entropy_tank)
       THEN GetBitsFrom(refill(c, g), [acc EXCEPT !.refilled = TRUE], i, n, ub, g)
       ELSE GetBitsTake(c, acc, i, n, ub, g, Min(n - i, Len(c.entropy_tank) - c.entropy_cursor))

GetBitsFrom(c, acc, i, n, ub, g) ==
  Force2(LAMBDA t, a : GetBitsTurn(t, a, i, n, ub, g), c, acc)

\* A variant of get_n_bit_unsigned_integer that drops the units left in the tank
\* when it is called for a unit: ExactConsumption depends on a call starting at the
\* cursor the call before has left.
get_n_bit_unsigned_integer_dropping(c, n, ub, g) ==
  GetBitsFrom([c EXCEPT !.entropy_cursor = IF n > 0 THEN Len(c.entropy_tank) ELSE @],
              [result |-> {}, units |-> << >>, refilled |-> FALSE], 0, n, ub, g)

\* uint64_t result = 0; for (unsigned int i=0; i<n; i ++) ...; return result;
get_n_bit_unsigned_integer(c, n, ub, g) ==
  GetBitsFrom(c, [result |-> {}, units |-> << >>, refilled |-> FALSE], 0, n, ub, g)

\* With an empty tank the first turn of the loop refills and then reads
\* entropy_tank[0] of a vector that has no storage: the process is killed.
ReadsEmptyTank(c, n) == n > 0 /\ Len(c.entropy_tank) = 0

(***************************************************************************)
(* Sparkle512core::get_unsigned_integer_in_range.                          *)
(***************************************************************************)
\* A variant of BitLength that is one less: RangeOneDrawsUnits depends on the
\* length of the draws.
BitLengthLess(clz) == 63 - clz

\* bit_length = 64 - __builtin_clzll(upper_bound - lower_bound), clz the count given
BitLength(clz) == 64 - clz

\* A variant of Rejected, while (output > range): RangeCorrect depends on the
\* condition of the loop.
RejectedAbove(output, range) == Less(range, output)

\* while (output >= range): the draw is rejected
Rejected(output, range) == ~Less(output, range)

(***************************************************************************)
(* The wrapper SparkleRG around one Sparkle512core.  A generator m is the  *)
(* core, the position of the caller (pc), the locals of the call of        *)
(* get_unsigned_integer_in_range in progress, what the last call gave (ret,*)
(* err) and what was observed of it: the units of its last draw, the       *)
(* number of its draws, whether the tank was ever refilled and whether     *)
(* absorb was ever called.                                                 *)
(***************************************************************************)
\* The number of draws of one call that are counted: further draws leave the count.
MaxDraws == 2

\* self.core = Sparkle512core(), before setup.
Constructed ==
  [core |-> Sparkle512core, pc |-> "constructed",
   lower_bound |-> {}, range |-> {}, bit_length |-> 0,
   ret |-> {}, err |-> FALSE,
   units |-> << >>, drawn |-> 0, refilled |-> FALSE, absorbed |-> FALSE]

\* The start of a call: nothing is returned yet.
Enter(m) ==
  [m EXCEPT !.lower_bound = {}, !.range = {}, !.bit_length = 0,
            !.ret = {}, !.err = FALSE, !.units = << >>, !.drawn = 0]

\* SparkleRG.__init__: self.core = Sparkle512core(); self.core.setup(steps, output_rate).
\* The core is a new one, whatever was done to the one the object had.
SparkleRG(m, steps, output_rate) ==
  [Enter(m) EXCEPT !.core = setup(Sparkle512core, steps, output_rate), !.pc = "ready",
                   !.refilled = FALSE, !.absorbed = FALSE]

\* The state[k] that _squeeze reads outside the array are indeterminate: the values
\* g they can take for a core.
OutOfState(c) == IF Len(c.entropy_tank) > 32 * 2 * N_BRANCHES THEN Indeterminate ELSE {0}

\* The outcomes of the shifts of a call for n units.
Shifts(n) == IF n > 32 THEN ShiftOutcomes ELSE {"wrap"}

\* raise Exception(...)
Raise(m) == [m EXCEPT !.err = TRUE]

\* The read of an empty tank, after the refill before it.
Crash(m, g) == [m EXCEPT !.core = refill(@, g), !.pc = "crashed", !.refilled = TRUE]

\* The absorb of the class SparkleRG that pads with the byte 0:
\* to_absorb = x + bytearray([0] * (48 - len(x))).
PadBlockZero(x) == x \o [i \in 1 .. (48 - Len(x)) |-> 0]

\* A variant of PadBlock without the byte of the character 1 between the block and
\* the bytes of the character 0: PaddingInjective depends on it.
PadBlockUnmarked(x) == x \o [i \in 1 .. (64 - Len(x)) |-> 48]

\* to_absorb = x + b"1" + b"0"*(63 - len(x)): the bytes of the characters 1 and 0.
PadBlock(x) == x \o << 49 >> \o [i \in 1 .. (63 - Len(x)) |-> 48]

\* SparkleRG.absorb
SparkleRG_absorb(m, x, g) ==
  [Enter(m) EXCEPT !.core = absorb(@, PadBlock(x), g), !.absorbed = TRUE]

\* A variant of SampleBitsRejects, if n > 65: SampleBitsError depends on the test.
SampleBitsRejectsAbove(n) == n > 65

\* if n > 64: raise
SampleBitsRejects(n) == n > 64

\* The call of the core for n units, on the core of m.
Fetch(m, n, ub, g) == get_n_bit_unsigned_integer(m.core, n, ub, g)

\* return self.core.get_n_bit_unsigned_integer(n), out what the core gave.
SampleBitsReturn(m, out) ==
  Force1(LAMBDA o : [m EXCEPT !.core = o.core, !.ret = o.result, !.units = o.units,
                              !.refilled = @ \/ o.refilled], out)

\* SparkleRG.get_n_bit_unsigned_integer
SparkleRG_get_n_bit_unsigned_integer(m, n, ub, g) ==
  IF SampleBitsRejects(n) THEN Raise(Enter(m))
  ELSE IF ReadsEmptyTank(m.core, n) THEN Crash(Enter(m), g)
  ELSE SampleBitsReturn(Enter(m), Fetch(m, n, ub, g))

\* A variant of UniformRejects, if upper < lower: SampleUniformError depends on
\* the test.
UniformRejectsBelow(lower, upper) == Less(upper, lower)

\* if upper <= lower: raise
UniformRejects(lower, upper) == ~Less(lower, upper)

\* SparkleRG.__call__ up to the do of get_unsigned_integer_in_range: bit_length and
\* range are set, clz is what __builtin_clzll(upper_bound - lower_bound) gave.
SparkleRG_call(m, lower, upper, clz) ==
  IF UniformRejects(lower, upper) THEN Raise(Enter(m))
  ELSE [Enter(m) EXCEPT !.pc = "sampling", !.lower_bound = lower,
                        !.range = Sub64(upper, lower), !.bit_length = BitLength(clz)]

\* One turn of do { output = get_n_bit_unsigned_integer(bit_length); }
\* while (output >= range); return lower_bound + output;  out is what the draw gave.
DrawReturn(m, out) ==
  Force1(LAMBDA o :
           [m EXCEPT !.core = o.core, !.units = o.units, !.refilled = @ \/ o.refilled,
                     !.drawn = Min(@ + 1, MaxDraws),
                     !.pc = IF Rejected(o.result, m.range) THEN "sampling" ELSE "ready",
                     !.ret = IF Rejected(o.result, m.range) THEN {}
                             ELSE Add64(m.lower_bound, o.result)],
         out)

\* The turn of the loop for a generator: one that is not in the loop stays as it is.
Draw(m, ub, g) ==
  IF m.pc # "sampling" THEN m
  ELSE IF ReadsEmptyTank(m.core, m.bit_length) THEN Crash(m, g)
  ELSE DrawReturn(m, Fetch(m, m.bit_length, ub, g))

(***************************************************************************)
(* The class EschRG(SparkleRG) of the module sparklyRG.  A Python object   *)
(* is a record of its type t and its value v: the bytes of a bytes, the    *)
(* code points of a str, the integer of an int, the items of a list.  A    *)
(* text is the sequence of its code points.                                *)
(***************************************************************************)
BytesObj(v) == [t |-> "bytes", v |-> v]

StrObj(v) == [t |-> "str", v |-> v]

IntObj(v) == [t |-> "int", v |-> v]

ListObj(v) == [t |-> "list", v |-> v]

\* The concatenation of the texts of a sequence of texts.
RECURSIVE Concat(_)
Concat(texts) == IF texts = << >> THEN << >> ELSE Head(texts) \o Concat(Tail(texts))

\* str.encode("UTF-8") of one code point.
Utf8Char(cp) ==
  IF cp < 128 THEN << cp >>
  ELSE IF cp < 2048 THEN << 192 + (cp \div 64), 128 + (cp % 64) >>
  ELSE IF cp < 65536
       THEN << 224 + (cp \div 4096), 128 + ((cp \div 64) % 64), 128 + (cp % 64) >>
  ELSE << 240 + (cp \div 262144), 128 + ((cp \div 4096) % 64), 128 + ((cp \div 64) % 64),
          128 + (cp % 64) >>

\* str.encode("UTF-8")
Utf8(text) == Concat([k \in 1 .. Len(text) |-> Utf8Char(text[k])])

\* str(n) of an int n >= 0: its decimal digits.
RECURSIVE Digits(_)
Digits(n) == IF n < 10 THEN << 48 + n >> ELSE Digits(n \div 10) \o << 48 + (n % 10) >>

\* str(x) of an int
StrOfInt(n) == IF n < 0 THEN << 45 >> \o Digits(0 - n) ELSE Digits(n)

\* The digit of 0..15 in lower case hexadecimal.
HexDigit(d) == IF d < 10 THEN 48 + d ELSE 87 + d

\* The value of a hexadecimal digit.
HexValue(ch) == IF ch < 58 THEN ch - 48 ELSE IF ch < 71 THEN ch - 55 ELSE ch - 87

\* The quote of the repr of a bytes: " when it holds a ' and no ", ' otherwise.
ReprQuote(b) ==
  IF (\E k \in 1 .. Len(b) : b[k] = 39) /\ ~(\E k \in 1 .. Len(b) : b[k] = 34) THEN 34 ELSE 39

\* A variant of ByteRepr that does not escape the backslash: EschReproduces depends
\* on the escapes of the printed form.
ByteReprPlain(c, quote) ==
  IF c = quote THEN << 92, c >>
  ELSE IF c = 9 THEN << 92, 116 >>
  ELSE IF c = 10 THEN << 92, 110 >>
  ELSE IF c = 13 THEN << 92, 114 >>
  ELSE IF c < 32 \/ c >= 127 THEN << 92, 120, HexDigit(c \div 16), HexDigit(c % 16) >>
  ELSE << c >>

\* One byte in the repr of a bytes: the quote and the backslash are escaped, tab,
\* newline and carriage return have their letters, the other bytes that are not
\* printable ASCII are \xhh.
ByteRepr(c, quote) ==
  IF c = quote \/ c = 92 THEN << 92, c >>
  ELSE IF c = 9 THEN << 92, 116 >>
  ELSE IF c = 10 THEN << 92, 110 >>
  ELSE IF c = 13 THEN << 92, 114 >>
  ELSE IF c < 32 \/ c >= 127 THEN << 92, 120, HexDigit(c \div 16), HexDigit(c % 16) >>
  ELSE << c >>

\* repr(b) of a bytes b: b'...'
BytesRepr(b) ==
  << 98, ReprQuote(b) >> \o Concat([k \in 1 .. Len(b) |-> ByteRepr(b[k], ReprQuote(b))])
     \o << ReprQuote(b) >>

\* ", ".join(items)
RECURSIVE Join(_)
Join(items) ==
  IF items = << >> THEN << >>
  ELSE IF Len(items) = 1 THEN items[1]
  ELSE items[1] \o << 44, 32 >> \o Join(Tail(items))

\* repr of a list of bytes: [b'...', b'...']
ListRepr(l) == << 91 >> \o Join([k \in 1 .. Len(l) |-> BytesRepr(l[k])]) \o << 93 >>

\* The text EschRG(
EschRGOpen == << 69, 115, 99, 104, 82, 71, 40 >>

\* EschRG.__str__: "EschRG({})".format(self.absorbed)
EschRG_str(absorbed) == EschRGOpen \o ListRepr(absorbed) \o << 41 >>

\* The text of a printed instance, read as Python: what the bytes literal that
\* starts at text[pos] = b denotes, up to its closing quote.  The result is the
\* bytes and the position after the literal; ok is FALSE for a text that is no
\* literal.
RECURSIVE LiteralFrom(_, _, _, _)
LiteralFrom(text, pos, quote, acc) ==
  IF pos > Len(text) THEN [ok |-> FALSE, v |-> acc, next |-> pos]
  ELSE IF text[pos] = quote THEN [ok |-> TRUE, v |-> acc, next |-> pos + 1]
  ELSE IF text[pos] # 92 THEN LiteralFrom(text, pos + 1, quote, Append(acc, text[pos]))
  ELSE IF pos + 1 > Len(text) THEN [ok |-> FALSE, v |-> acc, next |-> pos]
  ELSE IF text[pos + 1] = 116 THEN LiteralFrom(text, pos + 2, quote, Append(acc, 9))
  ELSE IF text[pos + 1] = 110 THEN LiteralFrom(text, pos + 2, quote, Append(acc, 10))
  ELSE IF text[pos + 1] = 114 THEN LiteralFrom(text, pos + 2, quote, Append(acc, 13))
  ELSE IF text[pos + 1] = 120 /\ pos + 3 <= Len(text)
       THEN LiteralFrom(text, pos + 4, quote,
                        Append(acc, 16 * HexValue(text[pos + 2]) + HexValue(text[pos + 3])))
  ELSE IF text[pos + 1] \in {92, 39, 34} THEN LiteralFrom(text, pos + 2, quote, Append(acc, text[pos + 1]))
  ELSE LiteralFrom(text, pos + 1, quote, Append(acc, 92))

Literal(text, pos) ==
  IF pos + 1 <= Len(text) /\ text[pos] = 98 /\ text[pos + 1] \in {39, 34}
  THEN LiteralFrom(text, pos + 2, text[pos + 1], << >>)
  ELSE [ok |-> FALSE, v |-> << >>, next |-> pos]

\* The items of the list display whose first item, or closing bracket, is at
\* text[pos]: the list of the bytes, and the position after the bracket.
RECURSIVE ItemsFrom(_, _, _)
ItemsAfter(text, lit, acc) ==
  IF ~lit.ok \/ lit.next > Len(text) THEN [ok |-> FALSE, v |-> acc, next |-> lit.next]
  ELSE IF text[lit.next] = 93 THEN [ok |-> TRUE, v |-> Append(acc, BytesObj(lit.v)), next |-> lit.next + 1]
  ELSE IF lit.next + 1 <= Len(text) /\ text[lit.next] = 44 /\ text[lit.next + 1] = 32
       THEN ItemsFrom(text, lit.next + 2, Append(acc, BytesObj(lit.v)))
  ELSE [ok |-> FALSE, v |-> acc, next |-> lit.next]

ItemsFrom(text, pos, acc) ==
  IF pos > Len(text) THEN [ok |-> FALSE, v |-> acc, next |-> pos]
  ELSE IF text[pos] = 93 /\ acc = << >> THEN [ok |-> TRUE, v |-> acc, next |-> pos + 1]
  ELSE Force1(LAMBDA lit : ItemsAfter(text, lit, acc), Literal(text, pos))

\* The argument of the call EschRG([...]) that a text is: the list object.
Evaluated(text) ==
  IF Len(text) >= Len(EschRGOpen) + 3
     /\ SubSeq(text, 1, Len(EschRGOpen)) = EschRGOpen
     /\ text[Len(EschRGOpen) + 1] = 91
  THEN Force1(LAMBDA items :
                IF items.ok /\ items.next = Len(text) /\ text[Len(text)] = 41
                THEN [ok |-> TRUE, v |-> ListObj(items.v)]
                ELSE [ok |-> FALSE, v |-> ListObj(<< >>)],
              ItemsFrom(text, Len(EschRGOpen) + 2, << >>))
  ELSE [ok |-> FALSE, v |-> ListObj(<< >>)]

\* _absorb_block: the bytes of x.
ToAbsorb(x) ==
  IF x.t = "bytes" THEN x.v
  ELSE IF x.t = "str" THEN Utf8(x.v)
  ELSE Utf8(StrOfInt(x.v))

\* The longest block of _absorb_block.
MaxEschBlock == 31

\* An instance under construction is e: the SparkleRG it is (m), self.absorbed, and
\* whether an exception was raised (err).
\* if len(to_absorb) > 31: raise; else: append to_absorb and absorb it.
AbsorbBlockBytes(e, b) ==
  IF Len(b) > MaxEschBlock THEN [e EXCEPT !.err = TRUE]
  ELSE [e EXCEPT !.absorbed = Append(@, b), !.m = SparkleRG_absorb(@, b, 0)]

\* _absorb_block(x), in the loop of the constructor: after an exception nothing
\* more is done.
EschRG_absorb_block(e, x) ==
  IF e.err THEN e ELSE Force2(LAMBDA s, b : AbsorbBlockBytes(s, b), e, ToAbsorb(x))

\* for x in blocks: self._absorb_block(x)
RECURSIVE AbsorbBlocks(_, _)
AbsorbBlocks(e, blocks) ==
  IF blocks = << >> THEN e
  ELSE Force1(LAMBDA s : AbsorbBlocks(s, Tail(blocks)), EschRG_absorb_block(e, Head(blocks)))

\* blocks = seeds[:] or [seeds]; if with_time: blocks.append(time_string.encode("UTF-8"))
EschBlocks(seeds, with_time, now) ==
  (IF seeds.t = "list" THEN seeds.v ELSE << seeds >>)
     \o (IF with_time THEN << BytesObj(Utf8(now)) >> ELSE << >>)

\* The steps and the output rate of an EschRG.
EschSteps == 8

EschRate == 256

\* EschRG.__init__(seeds, with_time), now the time string of the call.
EschRG(m, seeds, with_time, now) ==
  AbsorbBlocks([m |-> SparkleRG(m, EschSteps, EschRate), absorbed |-> << >>, err |-> FALSE],
               EschBlocks(seeds, with_time, now))

\* A variant of SwapAt that stores result[j] at i only: PermutationReturned depends
\* on the exchange.
SwapAtOverwrite(result, i, j) == [result EXCEPT ![i + 1] = result[j + 1]]

\* result[i], result[j] = result[j], result[i]
SwapAt(result, i, j) == [result EXCEPT ![i + 1] = result[j + 1], ![j + 1] = result[i + 1]]

\* The Python int of a uint64_t below 2^31.
IntOf(x) ==
  LET SumTo[k \in 0 .. 31] ==
        IF k = 0 THEN 0 ELSE SumTo[k - 1] + (IF (k - 1) \in x THEN 2 ^ (k - 1) ELSE 0)
  IN SumTo[31]

(***************************************************************************)
(* The calls made on a generator.                                          *)
(***************************************************************************)
\* steps and output_rate given to SparkleRG(steps, output_rate).
StepsSet == {0, 1, 2}

RateSet == {0, 32, 64, 576}

\* A block of 61 bytes, 60 bytes 0 and the byte 255: one byte more than the 15 words
\* below state[2*N_BRANCHES-1].
LongBlock == [i \in 1 .. (4 * (2 * N_BRANCHES - 1) + 1) |-> IF i <= 4 * (2 * N_BRANCHES - 1) THEN 0 ELSE 255]

\* The blocks absorbed: b"", b"\x00\x00\x00\x80", b"seed" and the block of 61 bytes.
Blocks == { << >>, << 0, 0, 0, 128 >>, << 115, 101, 101, 100 >>, LongBlock }

\* n of get_n_bit_unsigned_integer(n).
BitsArgs == {0, 1, 32, 33, 64, 65}

\* (lower, upper) of the calls rg(lower, upper): the ranges 1, 2, 3, 255, 256 and
\* 2^32, and two pairs with upper <= lower.
UniformArgs ==
  { << U64(0), U64(1) >>, << U64(0), U64(2) >>, << U64(5), U64(8) >>,
    << U64(0), U64(255) >>, << U64(0), U64(256) >>, << U64(0), {32} >>,
    << U64(5), U64(5) >>, << U64(5), U64(3) >> }

\* seeds of EschRG(seeds, with_time): b"seed", the str "\u00e97", the int -12, the
\* list [b"\\t", "'"], the empty list and a bytes of 32 bytes.
Seeds ==
  << BytesObj(<< 115, 101, 101, 100 >>), StrObj(<< 233, 55 >>), IntObj(0 - 12),
     ListObj(<< BytesObj(<< 92, 116 >>), StrObj(<< 39 >>) >>), ListObj(<< >>),
     BytesObj([k \in 1 .. (MaxEschBlock + 1) |-> 97]) >>

\* The time strings of datetime.datetime.now().isoformat(" ").split(".")[0]:
\* 2024-08-28 16:14:10.
Nows == { << 50, 48, 50, 52, 45, 48, 56, 45, 50, 56, 32, 49, 54, 58, 49, 52, 58, 49, 48 >> }

\* (lower, upper) of the calls rg(lower, upper) on an EschRG: the ranges 2^32 and 3.
EschArgs == { << U64(0), {32} >>, << U64(5), U64(8) >> }

\* v_size of random_permutation(v_size).
PermSizes == 0 .. 3

(***************************************************************************)
(* The state: the generator gen, and a second generator twin that is given *)
(* the same calls as gen when lockstep holds and is left alone otherwise.  *)
(* op is the last call made, before the core of gen when it was made, and  *)
(* calls the number of calls made since the construction.  esch is what    *)
(* gen has as an EschRG: the position of its caller (pc), self.absorbed,   *)
(* the core it had when its constructor returned (fresh), the text str     *)
(* gave of it (printed), the same of the instance made from that text      *)
(* (again), and the locals of random_permutation with the last index       *)
(* drawn (j, at the step at) and the list returned (perm).                 *)
(***************************************************************************)
VARIABLES gen, twin, lockstep, op, before, calls, esch

vars == << gen, twin, lockstep, op, before, calls, esch >>

\* No instance was made from a text.
NoReuse == [made |-> FALSE, ok |-> FALSE, absorbed |-> << >>, fresh |-> Sparkle512core]

\* gen is not an EschRG.
NoEsch ==
  [pc |-> "none", absorbed |-> << >>, fresh |-> Sparkle512core, printed |-> << >>,
   again |-> NoReuse,
   v_size |-> 0, i |-> 0, result |-> << >>, j |-> 0, at |-> 0, swaps |-> 0,
   perm |-> << >>, returned |-> FALSE]

Call(name, n, lower, upper) ==
  [name |-> name, n |-> n, lower |-> lower, upper |-> upper, x |-> << >>]

\* The call absorb(x).
AbsorbCall(x) == [Call("absorb", 0, {}, {}) EXCEPT !.x = x]

InitWith(l) ==
  /\ gen = Constructed
  /\ twin = Constructed
  /\ lockstep = l
  /\ op = Call("construct", 0, {}, {})
  /\ before = Sparkle512core
  /\ calls = 0
  /\ esch = NoEsch

Init == InitWith(FALSE)

TwinInit == InitWith(TRUE)

\* Both generators are between two calls, none of which is in progress, and a
\* further call is made.
Ready ==
  /\ gen.pc = "ready"
  /\ esch.pc # "shuffling"
  /\ lockstep => twin.pc = "ready"
  /\ calls < MaxCalls

\* What a call makes of the state: g the generator it makes of gen, t of twin.
Made(c, g, t) ==
  /\ gen' = g
  /\ twin' = IF lockstep THEN t ELSE twin
  /\ op' = c
  /\ before' = gen.core
  /\ calls' = calls + 1
  /\ UNCHANGED << lockstep, esch >>

\* rg = SparkleRG(steps, output_rate)
Setup ==
  \E steps \in StepsSet, output_rate \in RateSet :
    /\ gen.pc = "constructed"
    /\ gen' = SparkleRG(gen, steps, output_rate)
    /\ twin' = IF lockstep THEN SparkleRG(twin, steps, output_rate) ELSE twin
    /\ op' = Call("setup", 0, {}, {})
    /\ before' = gen.core
    /\ UNCHANGED << lockstep, calls, esch >>

\* rg.absorb(x)
Absorb ==
  \E x \in Blocks, g \in OutOfState(gen.core), h \in OutOfState(twin.core) :
    /\ Ready
    /\ Made(AbsorbCall(x), SparkleRG_absorb(gen, x, g), SparkleRG_absorb(twin, x, h))

\* absorb(x) on an object whose __init__ has not run: its core is the one its
\* allocation constructed, and setup was not called on it.
AbsorbBeforeSetup ==
  \E x \in Blocks, g \in OutOfState(gen.core), h \in OutOfState(twin.core) :
    /\ gen.pc = "constructed"
    /\ lockstep => twin.pc = "constructed"
    /\ calls < MaxCalls
    /\ Made(AbsorbCall(x), SparkleRG_absorb(gen, x, g), SparkleRG_absorb(twin, x, h))

\* rg.get_n_bit_unsigned_integer(n)
SampleBits ==
  \E n \in BitsArgs : \E ub \in Shifts(n), g \in OutOfState(gen.core), h \in OutOfState(twin.core) :
    /\ Ready
    /\ Made(Call("sample_bits", n, {}, {}),
            SparkleRG_get_n_bit_unsigned_integer(gen, n, ub, g),
            SparkleRG_get_n_bit_unsigned_integer(twin, n, ub, h))

\* rg(lower, upper), up to the loop
SampleUniform ==
  \E a \in UniformArgs : \E clz \in ClzllOutcomes(Sub64(a[2], a[1])) :
    /\ Ready
    /\ Made(Call("sample_uniform", 0, a[1], a[2]),
            SparkleRG_call(gen, a[1], a[2], clz), SparkleRG_call(twin, a[1], a[2], clz))

\* One turn of the loop of rg(lower, upper), in each generator that is in it.
Loop ==
  \E ub \in Shifts(gen.bit_length), g \in OutOfState(gen.core), h \in OutOfState(twin.core) :
    /\ gen.pc = "sampling" \/ (lockstep /\ twin.pc = "sampling")
    /\ gen' = Draw(gen, ub, g)
    /\ twin' = IF lockstep THEN Draw(twin, ub, h) ELSE twin
    /\ UNCHANGED << lockstep, op, before, calls, esch >>

\* The instance a constructor that raised leaves: no caller has it.
Failed(m) == [Raise(m) EXCEPT !.pc = "failed"]

\* rg = EschRG(seeds, with_time)
EschNew ==
  /\ esch.pc = "none"
  /\ gen.pc = "constructed"
  /\ \E k \in 1 .. Len(Seeds), with_time \in BOOLEAN, now \in Nows :
    \E e \in {EschRG(gen, Seeds[k], with_time, now)} :
      /\ gen' = IF e.err THEN Failed(e.m) ELSE e.m
      /\ esch' = [esch EXCEPT !.pc = IF e.err THEN "failed" ELSE "built",
                              !.absorbed = e.absorbed, !.fresh = e.m.core]
      /\ op' = Call("EschRG", 0, {}, {})
      /\ before' = gen.core
      /\ UNCHANGED << twin, lockstep, calls >>

\* str(rg)
EschStr ==
  /\ esch.pc = "built"
  /\ gen.pc = "ready"
  /\ esch' = [esch EXCEPT !.printed = EschRG_str(esch.absorbed)]
  /\ UNCHANGED << gen, twin, lockstep, op, before, calls >>

\* The text that str(rg) gave is run as Python: twin is the instance it makes.  When
\* no call was made on gen since its construction, the two are then given the same
\* calls.
EschReuse ==
  /\ esch.pc = "built"
  /\ gen.pc = "ready"
  /\ esch.printed # << >>
  /\ twin.pc = "constructed"
  /\ \E ev \in {Evaluated(esch.printed)} :
    \E e \in {EschRG(twin, ev.v, FALSE, << >>)} :
      /\ twin' = IF ev.ok /\ ~e.err THEN e.m ELSE Failed(e.m)
      /\ esch' = [esch EXCEPT !.again = [made |-> TRUE, ok |-> ev.ok /\ ~e.err,
                                         absorbed |-> e.absorbed, fresh |-> e.m.core]]
      /\ lockstep' = (ev.ok /\ ~e.err /\ calls = 0)
      /\ UNCHANGED << gen, op, before, calls >>

\* rg(lower, upper) on an EschRG, which inherits __call__: up to the loop.
EschSample ==
  \E a \in EschArgs : \E clz \in ClzllOutcomes(Sub64(a[2], a[1])) :
    /\ Ready
    /\ esch.pc = "built"
    /\ Made(Call("sample_uniform", 0, a[1], a[2]),
            SparkleRG_call(gen, a[1], a[2], clz), SparkleRG_call(twin, a[1], a[2], clz))

\* rg.random_permutation(v_size), up to the loop of its first call self(0, v_size):
\* result = list(range(0, v_size)); a v_size of 0 returns the empty list.
Permutation ==
  \E v \in PermSizes : \E clz \in ClzllOutcomes(U64(v)) :
    /\ esch.pc = "built"
    /\ gen.pc = "ready"
    /\ ~lockstep
    /\ calls < MaxCalls
    /\ gen' = IF v = 0 THEN Enter(gen) ELSE SparkleRG_call(gen, U64(0), U64(v), clz)
    /\ esch' = [esch EXCEPT !.pc = IF v = 0 THEN "built" ELSE "shuffling",
                            !.v_size = v, !.i = 0, !.result = [k \in 1 .. v |-> k - 1],
                            !.j = 0, !.at = 0, !.swaps = 0,
                            !.perm = << >>, !.returned = (v = 0)]
    /\ op' = Call("random_permutation", v, {}, {})
    /\ before' = gen.core
    /\ calls' = calls + 1
    /\ UNCHANGED << twin, lockstep >>

\* j = self(i, v_size) has returned: result[i], result[j] = result[j], result[i], and
\* the next turn of for i in range(0, v_size) begins with its call self(i, v_size),
\* or the list is returned.  A j that is no index of the list raises IndexError.
Swap ==
  /\ esch.pc = "shuffling"
  /\ gen.pc = "ready"
  /\ \E clz \in ClzllOutcomes(U64(esch.v_size - esch.i - 1)), j \in {IntOf(gen.ret)} :
    /\ IF j >= esch.v_size
       THEN /\ esch' = [esch EXCEPT !.pc = "failed", !.j = j, !.at = esch.i]
            /\ gen' = Raise(gen)
       ELSE /\ esch' = [esch EXCEPT !.result = SwapAt(@, esch.i, j),
                                    !.j = j, !.at = esch.i, !.swaps = @ + 1,
                                    !.i = @ + 1,
                                    !.pc = IF esch.i + 1 < esch.v_size THEN "shuffling" ELSE "built",
                                    !.perm = IF esch.i + 1 < esch.v_size THEN << >>
                                             ELSE SwapAt(esch.result, esch.i, j),
                                    !.returned = ~(esch.i + 1 < esch.v_size)]
            /\ gen' = IF esch.i + 1 < esch.v_size
                      THEN SparkleRG_call(gen, U64(esch.i + 1), U64(esch.v_size), clz)
                      ELSE gen
    /\ UNCHANGED << twin, lockstep, op, before, calls >>

Next == Setup \/ Absorb \/ AbsorbBeforeSetup \/ SampleBits \/ SampleUniform \/ Loop

\* One generator.
Spec == Init /\ [][Next]_vars

\* One generator whose call of rg(lower, upper) goes on as long as its loop does.
FairSpec == Init /\ [][Next]_vars /\ WF_vars(Loop)

\* Two generators given the same calls.
TwinSpec == TwinInit /\ [][Next]_vars

\* The calls made on an EschRG.
EschNext == EschNew \/ EschStr \/ EschReuse \/ EschSample \/ Permutation \/ Swap \/ Loop

\* One EschRG, and the instance made from its printed form.
EschSpec == Init /\ [][EschNext]_vars

\* The same, where a call of rg(lower, upper) and of random_permutation goes on as
\* long as it can.
EschFairSpec == Init /\ [][EschNext]_vars /\ WF_vars(Loop) /\ WF_vars(Swap)

(***************************************************************************)
(* Properties.                                                             *)
(***************************************************************************)
\* The last call was rg(lower, upper) and passed the test on its arguments.
InUniform == op.name = "sample_uniform" /\ ~gen.err

\* The last call was rg(lower, upper) and has returned a value.
UniformReturned == InUniform /\ gen.pc = "ready"

\* The last call was get_n_bit_unsigned_integer(n) and has returned a value.
BitsReturned == op.name = "sample_bits" /\ ~gen.err /\ gen.pc = "ready"

\* The value of the units of a draw, the first unit taken at bit 0.
PatternValue(units) == {i \in BitIndex : i < Len(units) /\ units[i + 1] = 1}

\* x < 2^b
BelowPower(x, b) == \A j \in x : j < b

\* C1: two generators constructed with the same steps and output_rate and given the
\* same calls with the same arguments have the same state, tank and cursor after
\* every step, and their calls give the same values.
TwinsAgree ==
  lockstep => /\ twin.core = gen.core
              /\ twin.ret = gen.ret
              /\ twin.err = gen.err
              /\ twin.pc = gen.pc

\* C2: every value v that rg(lower, upper) returns satisfies lower <= v < upper.
RangeCorrect ==
  UniformReturned => ~Less(gen.ret, op.lower) /\ Less(gen.ret, op.upper)

\* A call on the range 3 that returns after a rejected draw.
RangeCorrectWitness ==
  /\ UniformReturned
  /\ op.lower = U64(5)
  /\ gen.drawn = 2
  /\ gen.absorbed

\* C3: rg(lower, upper) returns lower + v for the first draw of bit_length units whose
\* value v is below range: the draw it accepts has its value below range and the
\* value returned is lower plus that value, and a draw it rejects has a value that
\* is not below range.
FirstDrawBelowRange ==
  (InUniform /\ gen.drawn > 0) =>
     /\ gen.pc = "ready" => /\ Less(PatternValue(gen.units), gen.range)
                            /\ gen.ret = Add64(op.lower, PatternValue(gen.units))
     /\ gen.pc = "sampling" => ~Less(PatternValue(gen.units), gen.range)

\* C4: the value get_n_bit_unsigned_integer(n) returns is below 2^n: it has no bit
\* set at position n or above.
BitsBelowTwoToN == BitsReturned => BelowPower(gen.ret, op.n)

\* The last call was rg(lower, upper) with upper - lower = 1.
RangeOne == InUniform /\ op.upper = Add64(op.lower, U64(1))

\* C5: when upper - lower = 1, rg(lower, upper) returns lower without a draw, and
\* state, tank and cursor are after the call what they were before it.
RangeOneNoEntropy ==
  (RangeOne /\ gen.pc = "ready") =>
     /\ gen.ret = op.lower
     /\ gen.drawn = 0
     /\ gen.core = before

\* C5, as the code has it: when upper - lower = 1 the draws are of one unit; the call
\* returns lower after a draw of the unit 0, and every draw before it took the
\* unit 1, so that the call takes at least one unit of the tank.
RangeOneDrawsUnits ==
  RangeOne =>
     /\ gen.bit_length = 1
     /\ gen.pc = "ready" => /\ gen.ret = op.lower
                            /\ gen.drawn > 0
                            /\ gen.units = << 0 >>
     /\ (gen.pc = "sampling" /\ gen.drawn > 0) => gen.units = << 1 >>

\* A call on the range 1 that returns after two draws: its cursor has moved.
RangeOneWitness ==
  /\ RangeOne
  /\ gen.pc = "ready"
  /\ gen.drawn = 2
  /\ gen.core.entropy_cursor # before.entropy_cursor

\* C6: for range >= 2, bit_length is the smallest b with 2^b >= range.
BitLengthOfPredecessor ==
  (InUniform /\ Less(U64(1), gen.range)) =>
     \A b \in 0 .. 64 : (b >= gen.bit_length) <=> (b = 64 \/ ~Less({b}, gen.range))

\* C6, as the code has it: bit_length is the position of the highest set bit of
\* range plus one, the smallest b with 2^b > range, so that range < 2^bit_length <=
\* 2 * range, with 2^bit_length = 2 * range when range is a power of two.
BitLengthAboveRange ==
  InUniform =>
     /\ gen.range = Sub64(op.upper, op.lower)
     /\ \A b \in 0 .. 64 : (b >= gen.bit_length) <=> BelowPower(gen.range, b)
     /\ (gen.bit_length - 1) \in gen.range

\* A call on the range 2, a power of two: its draws are of two units.
BitLengthWitness ==
  /\ InUniform
  /\ gen.range = U64(2)
  /\ gen.bit_length = 2
  /\ gen.drawn > 0

\* C7: a call rg(lower, upper) with upper > lower returns: its loop ends.
SamplingEnds == (gen.pc = "sampling") ~> (gen.pc # "sampling")

\* The last call was get_n_bit_unsigned_integer(64), made with no absorb before it,
\* and has returned.
StartupCall == BitsReturned /\ op.n = 64 /\ ~gen.absorbed

SampleBitsError ==
  (op.name = "sample_bits" /\ op.n > 64) =>
     /\ gen.err
     /\ gen.pc = "ready"
     /\ gen.core = before
     /\ gen.units = << >>

\* A call with n = 65 on a generator that has absorbed a block.
SampleBitsErrorWitness ==
  /\ op.name = "sample_bits"
  /\ op.n = 65
  /\ gen.err
  /\ gen.absorbed
  /\ gen.core.steps > 0

\* C10: rg(lower, upper) with upper <= lower raises an error before any unit is
\* drawn and leaves state, tank and cursor as they were.
SampleUniformError ==
  (op.name = "sample_uniform" /\ ~Less(op.lower, op.upper)) =>
     /\ gen.err
     /\ gen.pc = "ready"
     /\ gen.drawn = 0
     /\ gen.units = << >>
     /\ gen.core = before

\* The call rg(5, 3) on a generator that has absorbed a block.
SampleUniformErrorWitness ==
  /\ op.name = "sample_uniform"
  /\ op.lower = U64(5)
  /\ op.upper = U64(3)
  /\ gen.err
  /\ gen.absorbed
  /\ gen.core.steps > 0

\* The widest payload of absorb: the width of the state less the word
\* state[2*N_BRANCHES-1] that takes the domain separation, in bytes.
MaxBlockWidth == 4 * (2 * N_BRANCHES - 1)

\* C11: absorb of a payload wider than the maximum block width raises an error and
\* leaves state, tank and cursor as they were: the payload is neither truncated nor
\* written into the state.
OversizedAbsorbRejected ==
  (op.name = "absorb" /\ Len(op.x) > MaxBlockWidth) =>
     /\ gen.err
     /\ gen.core = before

\* C12: absorb on a generator on which setup was not called raises an error: the
\* call is not tolerated and leaves the generator as it was.
AbsorbBeforeSetupFails ==
  (op.name = "absorb" /\ gen.pc = "constructed") =>
     /\ gen.err
     /\ gen.core = before

\* C13: setup with steps = 0 or output_rate = 0 raises an error: no generator is set
\* up with zero steps or an empty tank, and none returns a value drawn with them.
SetupZeroRejected ==
  gen.pc # "constructed" =>
     /\ gen.core.steps > 0
     /\ Len(gen.core.entropy_tank) > 0

\* The tank is read at the cursor only: a generator that has crashed has read the
\* unit at the cursor of a tank whose capacity is the cursor.
TankReadInBounds == gen.pc = "crashed" => gen.core.entropy_cursor < Len(gen.core.entropy_tank)

\* C14: in every state reached by calls of setup, absorb, sample_bits and
\* sample_uniform the cursor is at most the capacity of the tank, and every read of
\* the tank is at an index below the capacity.
CursorWithinTank ==
  /\ gen.core.entropy_cursor \in 0 .. Len(gen.core.entropy_tank)
  /\ TankReadInBounds

\* The 32-bit word of the four bytes of data from byte 4k on, the first byte the
\* lowest: little-endian.
LittleEndianWord(data, k) ==
  W(data[4 * k + 3] + 256 * data[4 * k + 4], data[4 * k + 1] + 256 * data[4 * k + 2])

\* The state s with the data XORed into its words from word 0 on and 1 XORed into
\* word 15.
Injected(s, data) ==
  [k \in StateIndex |->
     XOR(XOR(s[k], LittleEndianWord(data, k)), IF k = 15 THEN W(0, 1) ELSE ZeroWord)]

\* The state s with 2 XORed into word 15.
Separated(s) == [k \in StateIndex |-> IF k = 15 THEN XOR(s[k], W(0, 2)) ELSE s[k]]

Squeezed == gen.absorbed \/ gen.refilled

\* C19: squeeze sets every unit t of the tank, for every capacity setup accepts, to
\* the parity of state[t div 32] >> (t mod 32), and reads the words 0..15 of the
\* state only: a tank that was squeezed holds, at every unit, the parity of a word
\* of the state.
SqueezeReadsState ==
  Squeezed =>
     \A t \in 0 .. (Len(gen.core.entropy_tank) - 1) :
        /\ (t \div 32) \in StateIndex
        /\ gen.core.entropy_tank[t + 1] = Parity(Shr(gen.core.state[t \div 32], t % 32))

\* The state s permuted r times with steps rounds each.
RECURSIVE PermuteTimes(_, _, _)
PermuteTimes(s, steps, r) ==
  IF r = 0 THEN s ELSE PermuteTimes(PermuteFrom(s, 0, steps), steps, r - 1)

\* The number of refills of a call for n units on the core b: none when the units
\* left in the tank suffice, and else one for every capacity of units, begun or
\* complete, that the call takes beyond them.
Refills(b, n) ==
  IF n <= Len(b.entropy_tank) - b.entropy_cursor THEN 0
  ELSE (n - (Len(b.entropy_tank) - b.entropy_cursor) + Len(b.entropy_tank) - 1)
          \div Len(b.entropy_tank)

\* The cursor after a call for n units on the core b that made r refills.
CursorAfter(b, n, r) ==
  IF r = 0 THEN b.entropy_cursor + n
  ELSE n - (Len(b.entropy_tank) - b.entropy_cursor) - (r - 1) * Len(b.entropy_tank)

\* The units of the tank of c that come from the words of its state are the
\* parities of these words.
TankOfState(c) ==
  \A t \in 0 .. (Len(c.entropy_tank) - 1) :
     (t \div 32) \in StateIndex =>
        c.entropy_tank[t + 1] = Parity(Shr(c.state[t \div 32], t % 32))

\* C20: a call get_n_bit_unsigned_integer(n) refills the tank when, and only when, a
\* unit is needed and the cursor is the capacity.  A call that finds its n units in
\* the tank leaves state and tank as they were and adds n to the cursor, which may
\* then be the capacity.  A call that needs more makes one refill, of one permutation
\* and one squeeze, for every capacity of units begun beyond those left, takes the
\* units left first and ends in the tank of the last refill, read from 0 on.
RefillWhenExhausted ==
  BitsReturned =>
     /\ gen.core.steps = before.steps
     /\ Len(gen.core.entropy_tank) = Len(before.entropy_tank)
     /\ Len(gen.units) = op.n
     /\ gen.core.state = PermuteTimes(before.state, before.steps, Refills(before, op.n))
     /\ gen.core.entropy_cursor = CursorAfter(before, op.n, Refills(before, op.n))
     /\ \A d \in 1 .. Min(op.n, Len(before.entropy_tank) - before.entropy_cursor) :
           gen.units[d] = before.entropy_tank[before.entropy_cursor + d]
     /\ IF Refills(before, op.n) = 0 THEN gen.core.entropy_tank = before.entropy_tank
        ELSE /\ TankOfState(gen.core)
             /\ \A d \in 1 .. gen.core.entropy_cursor :
                   gen.units[op.n - gen.core.entropy_cursor + d] = gen.core.entropy_tank[d]

\* A call for 64 units on a tank of 32 units that the call before has read to its
\* end without a refill: the call refills twice, and ends at the capacity again.
RefillWitness ==
  /\ BitsReturned
  /\ op.n = 64
  /\ gen.core.steps = 2
  /\ before.entropy_cursor = 32
  /\ Len(before.entropy_tank) = 32
  /\ before.state = Sparkle512core.state
  /\ gen.core.entropy_cursor = 32
  /\ gen.core.state = PermuteTimes(before.state, 2, 2)
  /\ gen.core.state # PermuteTimes(before.state, 2, 1)

\* The list object of the bytes of a list of blocks.
ListOfBytes(l) == ListObj([k \in 1 .. Len(l) |-> BytesObj(l[k])])

\* C15: str(g) of an EschRG g is the text EschRG(L), L the list of the blocks g has
\* absorbed, in their order; read as Python it is the call of EschRG on that list,
\* and the instance this call makes has absorbed the same blocks and has the state,
\* tank and cursor that g had when its constructor returned.  Given the same calls
\* as g from then on, it has the same state, tank and cursor as g after every one
\* and returns the same values.
EschReproduces ==
  /\ esch.printed # << >> =>
        /\ SubSeq(esch.printed, 1, Len(EschRGOpen)) = EschRGOpen
        /\ Evaluated(esch.printed) = [ok |-> TRUE, v |-> ListOfBytes(esch.absorbed)]
  /\ esch.again.made =>
        /\ esch.again.ok
        /\ esch.again.absorbed = esch.absorbed
        /\ esch.again.fresh = esch.fresh
  /\ lockstep =>
        /\ twin.core = gen.core
        /\ twin.ret = gen.ret
        /\ twin.err = gen.err
        /\ twin.pc = gen.pc

\* The instance made from the text EschRG([b'\\t', b"'"]) and the instance printed
\* have both returned from their second call rg(0, 2**32).
EschReproducesWitness ==
  /\ lockstep
  /\ esch.again.ok
  /\ esch.absorbed = << << 92, 116 >>, << 39 >> >>
  /\ op.name = "sample_uniform"
  /\ op.upper = {32}
  /\ calls = 2
  /\ gen.pc = "ready"
  /\ twin.pc = "ready"
  /\ gen.core # esch.fresh

\* C16: every EschRG on which a sample can be drawn has absorbed at least one block,
\* whatever seeds its constructor was given.
EschSeeded == esch.pc \in {"built", "shuffling"} => Len(esch.absorbed) >= 1

\* perm holds every integer of 0 .. v - 1 once and nothing else.
IsPermutation(perm, v) ==
  /\ Len(perm) = v
  /\ \A x \in 0 .. (v - 1) : Cardinality({k \in 1 .. v : perm[k] = x}) = 1

\* What holds of random_permutation(v_size) at every step: an index j drawn at step
\* i satisfies i <= j < v_size, so that no exchange raises, and the list returned is
\* a permutation of 0 .. v_size - 1.
PermutationSteps ==
  /\ op.name = "random_permutation" => esch.pc # "failed"
  /\ esch.swaps > 0 => esch.at <= esch.j /\ esch.j < esch.v_size
  /\ esch.returned => IsPermutation(esch.perm, esch.v_size)

\* C17: random_permutation(v_size) returns a list of length v_size that holds every
\* integer of 0 .. v_size - 1 once; every index j it draws at a step i satisfies
\* i <= j < v_size; and the call returns, its last step, a draw in a range of 1,
\* included.
PermutationReturned ==
  /\ []PermutationSteps
  /\ (esch.pc = "shuffling") ~> (esch.pc = "built" /\ esch.returned)

\* A call random_permutation(3) on a seeded instance has returned a list that is not
\* the list it started from: its last step drew in the range 1.
PermutationWitness ==
  /\ esch.returned
  /\ op.name = "random_permutation"
  /\ esch.v_size = 3
  /\ esch.swaps = 3
  /\ esch.at = 2
  /\ esch.j = 2
  /\ esch.perm # << 0, 1, 2 >>
  /\ Len(esch.absorbed) > 0

ZeroPadded(x) == x \o [i \in 1 .. (4 * 2 * N_BRANCHES - Len(x)) |-> 0]

\* C22: a block shorter than the block width is padded with bytes 0 before it is
\* folded in: absorb(x) through the wrapper changes the state as the XOR of the bytes
\* of x alone, followed by bytes 0, would, and the two forms of SparkleRG.absorb fold
\* the same words into the state.
ZeroPadding ==
  (op.name = "absorb" /\ Len(op.x) <= 48) =>
     /\ gen.core.state =
           PermuteFrom(Separated(PermuteFrom(Injected(before.state, ZeroPadded(op.x)),
                                             0, before.steps)),
                       0, before.steps)
     /\ XorBytes(before.state, PadBlock(op.x)) = XorBytes(before.state, PadBlockZero(op.x))


\* The state s with the data XORed into its words 0..14 and 1 XORed into word 15.
InjectedBelow(s, data) ==
  [k \in StateIndex |->
     IF k = 2 * N_BRANCHES - 1 THEN XOR(s[k], W(0, 1))
     ELSE XOR(s[k], LittleEndianWord(data, k))]

\* C23: in an absorb through the wrapper, state[15] is XORed with the constants 1
\* and 2 only, and the bytes of the block and of its padding are folded into the
\* words 0..14 only: the state after the call is the one these steps give.
ReservedWord ==
  op.name = "absorb" =>
     gen.core.state =
        PermuteFrom(Separated(PermuteFrom(InjectedBelow(before.state, PadBlock(op.x)),
                                          0, before.steps)),
                    0, before.steps)


\* A 32-bit word as the set of the positions of its set bits, bit 0 the lowest.
WordBits == 0 .. 31

BitsOf(w) ==
  {i \in 0 .. 15 : (w[2] \div (2 ^ i)) % 2 = 1}
     \cup {i \in 16 .. 31 : (w[1] \div (2 ^ (i - 16))) % 2 = 1}

\* The value of the bits lo .. lo + 15 of a word given by its bits, from bit lo + n on.
RECURSIVE HalfValue(_, _, _)
HalfValue(b, lo, n) ==
  IF n = 16 THEN 0 ELSE (IF (lo + n) \in b THEN 2 ^ n ELSE 0) + HalfValue(b, lo, n + 1)

WordOf(b) == W(HalfValue(b, 16, 0), HalfValue(b, 0, 0))

\* rotr(x, n): bit i of x goes to bit i - n, modulo 32.
rotr(x, n) == {(i + 32 - n) % 32 : i \in x}

\* a ^ b and a + b modulo 2^32 on words given by their bits.
BitXor(a, b) == (a \ b) \cup (b \ a)

BitAdd(a, b) == Add64(a, b) \cap WordBits

\* The three kinds of statement of the sequence on a pair p = (x, y):
\* x += rotr(y, a), y ^= rotr(x, b) and x ^= rc.
AddRotated(p, a) == Force1(LAMBDA t : << BitAdd(t[1], rotr(t[2], a)), t[2] >>, p)

XorRotated(p, b) == Force1(LAMBDA t : << t[1], BitXor(t[2], rotr(t[1], b)) >>, p)

XorConstant(p, rc) == Force1(LAMBDA t : << BitXor(t[1], rc), t[2] >>, p)

\* x += rotr(y,31); y ^= rotr(x,24); x ^= rc; x += rotr(y,17); y ^= rotr(x,17);
\* x ^= rc; x += y; y ^= rotr(x,31); x ^= rc; x += rotr(y,24); y ^= rotr(x,16); x ^= rc
ArxSequence(p, rc) ==
  XorConstant(XorRotated(AddRotated(
  XorConstant(XorRotated(AddRotated(
  XorConstant(XorRotated(AddRotated(
  XorConstant(XorRotated(AddRotated(p, 31), 24), rc), 17), 17), rc), 0), 31), rc), 24), 16), rc)

\* RCON[i mod 8] XORed into word 1 and the index i into word 3.
RoundConstants(s, i) ==
  [s EXCEPT ![1] = BitXor(@, BitsOf(RconAt(i % 8))), ![3] = BitXor(@, U64(i))]

\* The sequence on the pair (word 2k, word 2k + 1) with rc = RCON[k], k = 0..7.
ArxPairs(s) ==
  Force1(LAMBDA t : [k \in 0 .. 7 |-> ArxSequence(<< t[2 * k], t[2 * k + 1] >>, BitsOf(RconAt(k)))], s)

ArxOfPairs(s) ==
  Force1(LAMBDA p : [k \in StateIndex |-> WordOf(p[k \div 2][(k % 2) + 1])], ArxPairs(s))

\* The constants and the sequence of round i on the state s, then the linear layer.
RoundOf(s, i) ==
  LinearLayer(ArxOfPairs(RoundConstants([k \in StateIndex |-> BitsOf(s[k])], i)))

\* The rounds i, i + 1, ..., steps - 1 on s.
RECURSIVE RoundsFrom(_, _, _)
RoundsFrom(s, i, steps) ==
  IF i >= steps THEN s
  ELSE CHOOSE r \in {RoundsFrom(t, i + 1, steps) : t \in {RoundOf(s, i)}} : TRUE

\* C24: round i of permute, i = 0..steps-1, XORs RCON[i mod 8] into word 1 and i into
\* word 3, then applies to each pair (word 2k, word 2k+1) with rc = RCON[k] the
\* sequence x += rotr(y,31); y ^= rotr(x,24); x ^= rc; x += rotr(y,17);
\* y ^= rotr(x,17); x ^= rc; x += y; y ^= rotr(x,31); x ^= rc; x += rotr(y,24);
\* y ^= rotr(x,16); x ^= rc, modulo 2^32; with steps = 0 the state is unchanged.  The
\* state after a call that refilled once is the state before it after these rounds.
RoundsOfPermute ==
  (BitsReturned /\ Refills(before, op.n) = 1) =>
     /\ gen.core.state = RoundsFrom(before.state, 0, before.steps)
     /\ before.steps = 0 => gen.core.state = before.state

\* A call that refilled once, with two rounds, on a state that an absorb has made
\* non-zero.
RoundsWitness ==
  /\ BitsReturned
  /\ Refills(before, op.n) = 1
  /\ before.steps = 2
  /\ before.state # Sparkle512core.state
  /\ gen.core.state # before.state
  /\ gen.core.state = RoundsFrom(before.state, 0, 2)


\* ELL(v) = rotr(v ^ (v << 16), 16) on a word given by its bits.
EllOf(v) == rotr(BitXor(v, {i + 16 : i \in {k \in v : k < 16}}), 16)

\* The linear layer on the bits b of the 16 words: L[m] is b[m] and R[m] is b[8 + m];
\* tx and ty are given.
LinearOfBits(b, tx, ty) ==
  [k \in StateIndex |->
     IF k >= 8 THEN b[k - 8]
     ELSE IF k % 2 = 0
          THEN BitXor(BitXor(b[8 + 2 * (((k \div 2) + 1) % 4)], b[2 * (((k \div 2) + 1) % 4)]), ty)
          ELSE BitXor(BitXor(b[8 + 2 * (((k \div 2) + 1) % 4) + 1],
                             b[2 * (((k \div 2) + 1) % 4) + 1]), tx)]

LinearOfWords(s) ==
  Force1(LAMBDA b :
           Force1(LAMBDA n : [k \in StateIndex |-> WordOf(n[k])],
                  LinearOfBits(b, EllOf(BitXor(BitXor(BitXor(b[0], b[2]), b[4]), b[6])),
                                  EllOf(BitXor(BitXor(BitXor(b[1], b[3]), b[5]), b[7])))),
         [k \in StateIndex |-> BitsOf(s[k])])

\* The rounds i, i + 1, ..., steps - 1 on s, each with this linear layer after the
\* constants and the boxes.
RECURSIVE LinearRoundsFrom(_, _, _)
LinearRoundsFrom(s, i, steps) ==
  IF i >= steps THEN s
  ELSE CHOOSE r \in {LinearRoundsFrom(t, i + 1, steps) :
                       t \in {LinearOfWords(ArxLayer(AddRoundConstant(s, i)))}} : TRUE

\* C25: with L[0..7] and R[0..7] the words 0..7 and 8..15 after the boxes,
\* tx = ELL(L0^L2^L4^L6), ty = ELL(L1^L3^L5^L7) and ELL(v) = rotr(v ^ (v<<16), 16),
\* the linear layer of a round makes the new right half the old left half, word for
\* word, and the new words 2k and 2k+1, k = 0..3, R[2k']^L[2k']^ty and
\* R[2k'+1]^L[2k'+1]^tx with k' = (k+1) mod 4; every word read is the old one.  The
\* state after a call that refilled once is the state before it after such rounds.
LinearOfPermute ==
  (BitsReturned /\ Refills(before, op.n) = 1) =>
     gen.core.state = LinearRoundsFrom(before.state, 0, before.steps)

\* A call that refilled once, with one round or more, on a state that an absorb has
\* made non-zero: the new right half is not the old one.
LinearWitness ==
  /\ BitsReturned
  /\ Refills(before, op.n) = 1
  /\ before.steps > 0
  /\ before.state # Sparkle512core.state
  /\ \E k \in 8 .. 15 : gen.core.state[k] # before.state[k]
  /\ gen.core.state = LinearRoundsFrom(before.state, 0, before.steps)


\* A generator that was set up and neither seeded nor refilled: its state and its
\* tank are zero, and its cursor is the number of units drawn since setup.
UnseededState ==
  (gen.pc # "constructed" /\ ~gen.absorbed /\ ~gen.refilled) =>
     /\ gen.core.state = Sparkle512core.state
     /\ \A t \in 1 .. Len(gen.core.entropy_tank) : gen.core.entropy_tank[t] = 0
     /\ gen.core.entropy_cursor <= Len(gen.core.entropy_tank)

\* A call get_n_bit_unsigned_integer(n) on such a generator takes zeros up to the
\* capacity and returns 0 if it stays within it, and permutes when, and only when,
\* it takes a unit beyond the capacity.
UnseededDraw ==
  (/\ gen.pc = "ready" /\ ~gen.absorbed /\ ~gen.refilled
   /\ calls' = calls + 1 /\ op'.name = "sample_bits" /\ ~gen'.err) =>
     /\ gen'.refilled <=> (gen.core.entropy_cursor + op'.n > Len(gen.core.entropy_tank))
     /\ \A d \in 1 .. Min(Len(gen'.units), Len(gen.core.entropy_tank) - gen.core.entropy_cursor) :
           gen'.units[d] = 0
     /\ ~gen'.refilled => /\ gen'.ret = {}
                          /\ Len(gen'.units) = op'.n
                          /\ gen'.core = [gen.core EXCEPT !.entropy_cursor = @ + op'.n]

ExactUnits ==
  BitsReturned =>
     /\ Len(gen.units) = op.n
     /\ IF Refills(before, op.n) = 0
        THEN /\ gen.core.entropy_cursor = before.entropy_cursor + op.n
             /\ gen.units = SubSeq(before.entropy_tank, before.entropy_cursor + 1,
                                   gen.core.entropy_cursor)
        ELSE /\ gen.core.entropy_cursor \in 1 .. Len(gen.core.entropy_tank)
             /\ SubSeq(gen.units, op.n - gen.core.entropy_cursor + 1, op.n)
                   = SubSeq(gen.core.entropy_tank, 1, gen.core.entropy_cursor)

\* A call for a units followed by a call for b units, a + b <= 64, against one call
\* for a + b units on the core the first call found.
SplitDraw ==
  (/\ BitsReturned /\ BitsReturned' /\ calls' = calls + 1
   /\ op.n + op'.n <= 64) =>
     \E ub \in Shifts(op.n + op'.n), g \in OutOfState(before) :
        \E one \in {get_n_bit_unsigned_integer(before, op.n + op'.n, ub, g)} :
           /\ one.core = gen'.core
           /\ one.units = gen.units \o gen'.units

\* C27: get_n_bit_unsigned_integer(n) takes n units of the tank in the order of the
\* cursor, none twice; for a + b <= 64 a call for a units followed by a call for b
\* units leaves the state, the tank and the cursor that one call for a + b units on
\* the same generator leaves, and takes the same units in the same order.
ExactConsumption == []ExactUnits /\ [][SplitDraw]_vars

\* Two calls for 32 units on a tank of 32 units with two rounds set up: the second
\* has refilled, and the core is the one a call for 64 units leaves.
ExactConsumptionWitness ==
  /\ BitsReturned
  /\ calls = 2
  /\ op.n = 32
  /\ ~gen.absorbed
  /\ before = [setup(Sparkle512core, 2, 32) EXCEPT !.entropy_cursor = 32]
  /\ gen.refilled
  /\ gen.core.entropy_cursor = 32
  /\ gen.core = get_n_bit_unsigned_integer(setup(Sparkle512core, 2, 32), 64, "wrap", 0).core
  /\ gen.core.state # Sparkle512core.state


\* C28: after an absorb, whatever the cursor was before it, the cursor is 0 and every
\* unit of the tank comes from the state the absorb has left: unit t is the parity
\* of state[t div 32] >> (t mod 32), a word of the state, so that no unit squeezed
\* before the absorb is left to a later call.
AbsorbDiscardsOutput ==
  op.name = "absorb" =>
     /\ gen.core.entropy_cursor = 0
     /\ \A t \in 0 .. (Len(gen.core.entropy_tank) - 1) :
           /\ (t \div 32) \in StateIndex
           /\ gen.core.entropy_tank[t + 1] = Parity(Shr(gen.core.state[t \div 32], t % 32))


\* The ends given to a block to make the blocks compared with it: up to three bytes
\* of the characters 0 and 1, those of the padding, and ends that make blocks of up
\* to 31 bytes.
PadEnds ==
  UNION {[1 .. k -> {48, 49}] : k \in 0 .. 3}
     \cup {[i \in 1 .. 27 |-> 48], [i \in 1 .. 26 |-> 48] \o << 49 >>, [i \in 1 .. 27 |-> 49]}

\* The blocks of at most 31 bytes that begin with x.
PadNear(x) == {y \in {x \o e : e \in PadEnds} : Len(y) <= MaxEschBlock}

\* C29: for two blocks x # y of at most 31 bytes each, the byte arrays that
\* SparkleRG.absorb hands to the core, x + b"1" + b"0"*(63 - len(x)) and the same of
\* y, differ and have 64 bytes each, so that they do not inject the same data into
\* the same state.  Stated for the blocks that begin with the block absorbed: their
\* padded forms, and the states these make of the state before the call, are as many
\* as the blocks.
PaddingInjective ==
  (op.name = "absorb" /\ Len(op.x) <= MaxEschBlock) =>
     \E near \in {PadNear(op.x)} :
        \E padded \in {{PadBlock(x) : x \in near}} :
           /\ \A p \in padded : Len(p) = 64
           /\ Cardinality(padded) = Cardinality(near)
           /\ Cardinality({Injected(before.state, p) : p \in padded}) = Cardinality(near)

\* An absorb of b"seed": the block b"seed1" begins as its padded form does, and the
\* two padded forms differ at the byte after it.
PaddingWitness ==
  /\ op.name = "absorb"
  /\ op.x = << 115, 101, 101, 100 >>
  /\ gen.core.state # before.state
  /\ SubSeq(PadBlock(op.x), 1, 5) = op.x \o << 49 >>
  /\ SubSeq(PadBlock(op.x \o << 49 >>), 1, 5) = op.x \o << 49 >>
  /\ PadBlock(op.x)[6] = 48
  /\ PadBlock(op.x \o << 49 >>)[6] = 49


\* The word that the units 32k .. 32k + 31 of a tank give: its bit 31 is the unit
\* 32k + 31, and its bit j < 31 is set when the units 32k + j and 32k + j + 1 differ.
WordOfUnits(tank, k) ==
  {j \in WordBits : IF j = 31 THEN tank[32 * k + 32] = 1
                    ELSE tank[32 * k + j + 1] # tank[32 * k + j + 2]}

\* The state s with zero in the words that a tank of the given capacity does not
\* show.
ExposedOnly(s, capacity) == [k \in StateIndex |-> IF 32 * k < capacity THEN s[k] ELSE ZeroWord]

\* C30: for every word k of the state below capacity / 32, the units 32k .. 32k + 31
\* that squeeze has stored give the word back: bit 31 is the unit 32k + 31 and bit
\* j < 31 is the unit 32k + j XOR the unit 32k + j + 1, so that two states that
\* differ in such a word have different tanks; the words from capacity / 32 on have
\* no part in the tank.
SqueezeInvertible ==
  Squeezed =>
     /\ \A k \in StateIndex :
           32 * (k + 1) <= Len(gen.core.entropy_tank) =>
              BitsOf(gen.core.state[k]) = WordOfUnits(gen.core.entropy_tank, k)
     /\ \E g \in OutOfState(gen.core) :
           squeeze([gen.core EXCEPT !.state = ExposedOnly(@, Len(gen.core.entropy_tank))],
                   g).entropy_tank = gen.core.entropy_tank

\* A tank of 64 units squeezed after an absorb with two rounds: the words 0 and 1 of
\* the state are shown and differ, the words from 2 on are not shown and not all
\* zero, and the tank has units 0 and units 1.
SqueezeWitness ==
  /\ gen.absorbed
  /\ gen.core.steps = 2
  /\ Len(gen.core.entropy_tank) = 64
  /\ gen.core.state[0] # gen.core.state[1]
  /\ gen.core.state[2] # ZeroWord
  /\ \E t \in 1 .. 31 : gen.core.entropy_tank[t] # gen.core.entropy_tank[t + 1]
  /\ WordOf(WordOfUnits(gen.core.entropy_tank, 1)) = gen.core.state[1]

=============================================================================
